---- MODULE Spec2Model ----
(***************************************************************************)
(* Model of ctsb.experiments.experiment.Experiment: the experiment object  *)
(* (its attributes), and its operations initialize, add_model and          *)
(* scoreboard, together with the LDS problem as its test drives it, as a   *)
(* state machine.  One action per public method; each action models the    *)
(* whole method call, including an exception that ends it early.           *)
(*                                                                         *)
(* A Python dict whose iteration order the code relies on (problems,       *)
(* models) is a sequence of <<key, value>> pairs in insertion order.  The  *)
(* results table and the duplicate counter are never iterated and are      *)
(* functions.  A loss series is represented by its length.                 *)
(***************************************************************************)
EXTENDS Integers, Sequences, FiniteSets, TLC

VARIABLES
    exp,        \* the Experiment instance: its attributes
    before,     \* the instance as it was when the most recent add_model call
                \* began (as constructed, when the most recent call is another)
    last,       \* the most recent method call: arguments, outcome, output
    initArgs,   \* the arguments of the most recent initialize call
    nAdds,      \* number of add_model calls since the last initialize call
    problem,    \* an LDS problem instance, as test_lds drives it
    trace,      \* what has been called on problem since its last initialize
    read        \* the scoreboard call, when it is the most recent call on exp

vars == <<exp, before, last, initArgs, nAdds, problem, trace, read>>
expVars == <<exp, before, last, initArgs, nAdds, read>>

\* Bound of the exploration: add_model calls between two initialize calls.
MaxAdds == 3

\* Bound of the exploration: step calls on a problem between two initialize
\* calls (test_lds runs steps = 1000 of them).
MaxSteps == 6

(***************************************************************************)
(* Python values                                                           *)
(***************************************************************************)

\* None passed as model_id / as name.
NoneId == "<None>"
NoName == "<None>"

\* Problem hyperparameters: None (defaults) or a user-supplied mapping.
NoneProblemParams == "None"
UserProblemParams == "{'p': 3}"

\* Model hyperparameters: None, or a mapping with an optional 'optimizer'
\* entry (the optimizer class, given by its __name__) and a learning rate.
NoneParams == [none |-> TRUE, optimizer |-> "", lr |-> 0]
ModelParams(opt, lr) == [none |-> FALSE, optimizer |-> opt, lr |-> lr]

\* 'optimizer' in model_params, for a mapping.
HasOptimizer(model_params) == model_params.optimizer # ""

(***************************************************************************)
(* dict, as a sequence of <<key, value>> pairs in insertion order          *)
(***************************************************************************)
EmptyDict == <<>>
KeySeq(d) == [i \in 1..Len(d) |-> d[i][1]]
Keys(d) == {d[i][1] : i \in 1..Len(d)}
Has(d, k) == k \in Keys(d)
Get(d, k) == d[CHOOSE i \in 1..Len(d) : d[i][1] = k][2]
\* d[k] = v: an existing key keeps its position, a new key is appended.
Put(d, k, v) ==
    IF Has(d, k)
    THEN [i \in 1..Len(d) |-> IF d[i][1] = k THEN <<k, v>> ELSE d[i]]
    ELSE Append(d, <<k, v>>)

\* A dict that is only indexed, never iterated: a function.
EmptyMap == [k \in {} |-> 0]
MapPut(m, k, v) == [x \in DOMAIN m \cup {k} |-> IF x = k THEN v ELSE m[x]]

\* Entries of the results table: a loss series (by its length) or a scalar.
Series(len) == [tag |-> "series", v |-> len]
Scalar(x) == [tag |-> "scalar", v |-> x]

(***************************************************************************)
(* Collaborators whose code is not part of the sources at hand             *)
(* (ctsb.experiments.core, .precomputed, .new_experiment)                  *)
(***************************************************************************)

\* precomputed.get_timesteps(): the frozen timestep count.
get_timesteps == 1500

\* to_dict: a sequence of ids becomes id -> None, a mapping stays as given.
\* An argument is [form, ids, hp]: form "list" (hp unused) or "dict".
to_dict(x, none) ==
    [i \in 1..Len(x.ids) |->
        <<x.ids[i], IF x.form = "dict" THEN x.hp[i] ELSE none>>]

\* problem_to_models: [none |-> TRUE] for None, else a dict problem_id ->
\* sequence of model ids.  The pairs to run: the restriction's pairs when
\* one is given, else the full cross-product, problems then models.
ModelsFor(problem_id, model_ids, problem_to_models) ==
    IF problem_to_models.none THEN model_ids
    ELSE IF Has(problem_to_models.map, problem_id)
         THEN Get(problem_to_models.map, problem_id)
         ELSE <<>>

\* run_experiment((problem_id, problem_params), (model_id, model_params),
\* metric, key, timesteps): one trial.  It raises on the problems in bad
\* (an incompatible pair, a numerical failure); otherwise it returns a loss
\* series of length timesteps and the measured time and memory (>= 0).
run_experiment(problem_id, problem_params, model_id, model_params, metric, timesteps, bad) ==
    [raised |-> problem_id \in bad,
     loss |-> Series(timesteps), time |-> Scalar(1), memory |-> Scalar(1)]

\* The three entries one trial contributes to a results table.
TrialKeys(metric, problem_id, model_id) ==
    {<<metric, problem_id, model_id>>, <<"time", problem_id, model_id>>,
     <<"memory", problem_id, model_id>>}

AllPairs(problem_ids, model_ids, problem_to_models) ==
    UNION {{<<problem_ids[i], ModelsFor(problem_ids[i], model_ids, problem_to_models)[j]>> :
              j \in 1..Len(ModelsFor(problem_ids[i], model_ids, problem_to_models))} :
           i \in 1..Len(problem_ids)}

\* precomputed.load_prob_model_to_result: the frozen table, for every
\* requested metric and pair, with series of the frozen length.
load_prob_model_to_result(problem_ids, model_ids, problem_to_models, metrics) ==
    LET P == AllPairs(problem_ids, model_ids, problem_to_models)
        K == UNION {TrialKeys(metrics[i], p[1], p[2]) : i \in 1..Len(metrics), p \in P}
    IN [k \in K |-> IF k[1] \in {"time", "memory"} THEN Scalar(1)
                    ELSE Series(get_timesteps)]

\* NewExperiment.initialize + run_all_experiments: one trial per metric and
\* pair; a trial that raises is recorded as the sentinel (0, -1, -1).
run_all_experiments(problems, models, problem_to_models, metrics, timesteps, bad) ==
    LET P == AllPairs(KeySeq(problems), KeySeq(models), problem_to_models)
        K == UNION {TrialKeys(metrics[i], p[1], p[2]) : i \in 1..Len(metrics), p \in P}
        R(k) == run_experiment(k[2], Get(problems, k[2]), k[3], Get(models, k[3]),
                               k[1], timesteps, bad)
    IN [k \in K |->
          IF k[1] = "time" THEN (IF R(k).raised THEN Scalar(-1) ELSE R(k).time)
          ELSE IF k[1] = "memory" THEN (IF R(k).raised THEN Scalar(-1) ELSE R(k).memory)
          ELSE IF R(k).raised THEN Scalar(0) ELSE R(k).loss]

(***************************************************************************)
(* Experiment.__init__                                                     *)
(***************************************************************************)

\* After construction only self.initialized exists; attrs tells whether the
\* other attributes have been assigned (reading them before raises
\* AttributeError).  Their values below are placeholders until then.
Constructed ==
    [initialized |-> FALSE, attrs |-> FALSE,
     problems |-> EmptyDict, models |-> EmptyDict,
     problem_to_models |-> [none |-> TRUE, map |-> EmptyDict],
     metrics |-> <<>>, use_precomputed |-> FALSE, timesteps |-> 0,
     n_models |-> EmptyMap, prob_model_to_result |-> EmptyMap]

\* (variant: a missing attribute reads as empty)
AttrMissingNever(e) == FALSE

\* Reading self.models (or any attribute but initialized) on e raises.
AttrMissing(e) == ~e.attrs

(***************************************************************************)
(* Experiment.initialize                                                   *)
(***************************************************************************)

\* `x is dict`: identity with the class object dict; a list or a dict
\* instance is never the class itself.
IsDictClass(x) == x.form = "class"

WarnTimesteps == "WARNING: when using precomputed results, number of timesteps is fixed."
WarnProblemParams == "WARNING: problem hyperparameters will be disregarded"
WarnModelParams == "WARNING: model hyperparameters will be disregarded"

\* (variant: the counter is not reset)
KeepCounter(n_models) == n_models

\* self.n_models = {}
ResetCounter(n_models) == EmptyMap

\* The call's result: the instance afterwards and the lines printed.
initialize(e, problems, models, problem_to_models, metrics, use_precomputed, timesteps, bad) ==
    LET e1 == [e EXCEPT !.attrs = TRUE,
                        !.problems = to_dict(problems, NoneProblemParams),
                        !.models = to_dict(models, NoneParams),
                        !.problem_to_models = problem_to_models,
                        !.metrics = metrics,
                        !.use_precomputed = use_precomputed,
                        !.timesteps = timesteps,
                        !.n_models = ResetCounter(e.n_models)]
        w1 == IF use_precomputed /\ timesteps # get_timesteps
              THEN {WarnTimesteps} ELSE {}
        w2 == IF use_precomputed /\ IsDictClass(problems)
              THEN {WarnProblemParams} ELSE {}
        w3 == IF use_precomputed /\ IsDictClass(models)
              THEN {WarnModelParams} ELSE {}
        table == IF use_precomputed
                 THEN load_prob_model_to_result(KeySeq(e1.problems), KeySeq(e1.models),
                                                problem_to_models, metrics)
                 ELSE run_all_experiments(e1.problems, e1.models, problem_to_models,
                                          metrics, timesteps, bad)
    IN [exp |-> [e1 EXCEPT !.prob_model_to_result = table],
        out |-> w1 \cup w2 \cup w3]

(***************************************************************************)
(* Experiment.add_model                                                    *)
(***************************************************************************)

\* "..." % args: raises TypeError unless the format string has as many
\* %s conversions as there are arguments.
Format(conversions, nargs) == IF conversions = nargs THEN "" ELSE "TypeError"

\* The except clause's print: "ERROR: Could not run %s on %s. " +
\* "Please make sure model and problem are compatible." % (problem_id,
\* model_id).  % binds tighter than +, so the two arguments are applied to
\* the second literal, which has no conversion.
HandlerPrint == Format(0, 2)

\* (variant: only an explicit name counts)
ExplicitNameOnly(model_params, name) == name

\* The name the key is derived from: the explicit name, else the
\* optimizer's __name__ when model_params has an 'optimizer' entry.
ResolveName(model_params, name) ==
    IF name = NoName /\ HasOptimizer(model_params)
    THEN model_params.optimizer ELSE name

\* (variant: the counter is set, not incremented)
DeriveCounterStuck(models, n_models, model_id, name) ==
    IF Has(models, model_id) /\ name = NoName
    THEN MapPut(n_models, model_id, 1)
    ELSE n_models

\* The counter after the key derivation.
DeriveCounter(models, n_models, model_id, name) ==
    IF Has(models, model_id)
    THEN LET n0 == IF model_id \in DOMAIN n_models THEN n_models
                   ELSE MapPut(n_models, model_id, 0)
         IN IF name # NoName THEN n0
            ELSE MapPut(n0, model_id, n0[model_id] + 1)
    ELSE n_models

\* new_id.
DeriveKey(models, n_models, model_id, name) ==
    IF Has(models, model_id)
    THEN IF name # NoName
         THEN model_id \o "-" \o name
         ELSE model_id \o "-" \o
              ToString(DeriveCounter(models, n_models, model_id, name)[model_id])
    ELSE model_id

\* The timestep count add_model passes to run_experiment.
AddModelTimesteps(e) == get_timesteps

\* The body's three stores after a trial.
Store(e, metric, problem_id, new_id, model_params, loss, time, memory) ==
    [e EXCEPT !.models = Put(e.models, new_id, model_params),
              !.prob_model_to_result =
                  MapPut(MapPut(MapPut(e.prob_model_to_result,
                      <<metric, problem_id, new_id>>, loss),
                      <<"time", problem_id, new_id>>, time),
                      <<"memory", problem_id, new_id>>, memory)]

\* The iterations of `for metric in self.metrics: for problem_id,
\* problem_params in self.problems.items()`, in order.
Iterations(e) ==
    LET np == Len(e.problems)
    IN [i \in 1..(Len(e.metrics) * np) |->
          [metric |-> e.metrics[((i - 1) \div np) + 1],
           problem_id |-> e.problems[((i - 1) % np) + 1][1],
           problem_params |-> e.problems[((i - 1) % np) + 1][2]]]

\* The loop from iteration i on.  trials collects what each trial was run
\* with.
RECURSIVE Loop(_, _, _, _, _, _, _, _)
Loop(e, its, i, model_id, model_params, new_id, bad, trials) ==
    IF i > Len(its)
    THEN [exp |-> e, raised |-> "", trials |-> trials]
    ELSE LET it == its[i]
             r == run_experiment(it.problem_id, it.problem_params, model_id,
                                 model_params, it.metric, AddModelTimesteps(e), bad)
             tr == trials \cup {[problem_id |-> it.problem_id,
                                 problem_params |-> it.problem_params,
                                 timesteps |-> AddModelTimesteps(e)]}
         IN IF r.raised /\ HandlerPrint # ""
            THEN [exp |-> e, raised |-> HandlerPrint, trials |-> tr]
            ELSE Loop(IF r.raised
                      THEN Store(e, it.metric, it.problem_id, new_id, model_params,
                                 Scalar(0), Scalar(-1), Scalar(-1))
                      ELSE Store(e, it.metric, it.problem_id, new_id, model_params,
                                 r.loss, r.time, r.memory),
                      its, i + 1, model_id, model_params, new_id, bad, tr)

\* The call's result: the instance afterwards, the exception that ended it
\* ("" when it returned), the derived key ("" when none was derived) and
\* the trials it ran.
add_model(e, model_id, model_params, name, bad) ==
    IF model_id = NoneId
    THEN [exp |-> e, raised |-> "AssertionError", new_id |-> "", trials |-> {}]
    ELSE IF name = NoName /\ model_params.none
    THEN [exp |-> e, raised |-> "TypeError", new_id |-> "", trials |-> {}]
    ELSE IF AttrMissing(e)
    THEN [exp |-> e, raised |-> "AttributeError", new_id |-> "", trials |-> {}]
    ELSE LET nm == ResolveName(model_params, name)
             new_id == DeriveKey(e.models, e.n_models, model_id, nm)
             e1 == [e EXCEPT !.n_models =
                        DeriveCounter(e.models, e.n_models, model_id, nm)]
             r == Loop(e1, Iterations(e1), 1, model_id, model_params, new_id, bad, {})
         IN [exp |-> r.exp, raised |-> r.raised, new_id |-> new_id,
             trials |-> r.trials]

(***************************************************************************)
(* Experiment.scoreboard                                                   *)
(***************************************************************************)

\* The attributes of the instance that some method has assigned: __init__
\* assigns initialized, initialize the fields of the record.
AttrsSet(e) == IF AttrMissing(e) THEN {"initialized"} ELSE DOMAIN e \ {"attrs"}

\* Line 124: `self.use_precomputed and metric == 'time' and self.new_models`,
\* evaluated left to right; the attribute read that raises, if one does.
WarningTest(e, metric) ==
    IF "use_precomputed" \notin AttrsSet(e) THEN "AttributeError"
    ELSE IF ~(e.use_precomputed /\ metric = "time") THEN ""
    ELSE IF "new_models" \notin AttrsSet(e) THEN "AttributeError"
    ELSE ""

\* Lines 143-147: the lookups of the table, every problem against every model.
Lookups(e, metric) ==
    {<<metric, p, k>> : p \in Keys(e.problems), k \in Keys(e.models)}

\* scoreboard(metric = metric): the instance afterwards, the exception that
\* ended the call ("" when it returned) and the number of rows of the table.
scoreboard(e, metric) ==
    IF WarningTest(e, metric) # ""
    THEN [exp |-> e, raised |-> WarningTest(e, metric), rows |-> 0]
    ELSE IF Lookups(e, metric) \subseteq DOMAIN e.prob_model_to_result
    THEN [exp |-> e, raised |-> "", rows |-> Len(e.problems)]
    ELSE [exp |-> e, raised |-> "KeyError", rows |-> 0]

(***************************************************************************)
(* The calls a client can make                                             *)
(***************************************************************************)
NoRestriction == [none |-> TRUE, map |-> EmptyDict]

\* A restriction that gives the first problem the first model and every
\* other problem no model.
FirstOnly(problems, models) ==
    [none |-> FALSE,
     map |-> [i \in 1..Len(problems.ids) |->
                <<problems.ids[i], IF i = 1 THEN <<models.ids[1]>> ELSE <<>>>>]]

ListArg(ids) == [form |-> "list", ids |-> ids, hp |-> <<>>]
DictArg(ids, hp) == [form |-> "dict", ids |-> ids, hp |-> hp]

\* The trials that raise during one call: none, or those on one problem.
BadChoices(ids) == {{}} \cup {{ids[i]} : i \in 1..Len(ids)}

InitCalls(ProblemArgs, ModelArgs, Restricted, MetricArgs, Precomputed, TimestepArgs) ==
    UNION {{[problems |-> p, models |-> m, problem_to_models |-> r, metrics |-> me,
             use_precomputed |-> u, timesteps |-> t, bad |-> b] :
              r \in {NoRestriction} \cup (IF Restricted THEN {FirstOnly(p, m)} ELSE {}),
              b \in (IF u THEN {{}} ELSE BadChoices(p.ids))} :
           p \in ProblemArgs, m \in ModelArgs, me \in MetricArgs,
           u \in Precomputed, t \in TimestepArgs}

AddCalls(ModelIdArgs, ModelParamArgs, NameArgs) ==
    {[model_id |-> i, model_params |-> mp, name |-> n] :
        i \in ModelIdArgs, mp \in ModelParamArgs, n \in NameArgs}

\* What an initialize call found in the instance it was made on.
Summary(e) ==
    [attrs |-> e.attrs, nmodels |-> Len(e.models),
     ncounted |-> Cardinality(DOMAIN e.n_models)]

NoCall ==
    [op |-> "__init__", raised |-> "", out |-> {}, new_id |-> "", trials |-> {},
     model_id |-> "", model_params |-> NoneParams, name |-> NoName, bad |-> {},
     replaced |-> Summary(Constructed)]

NoRead == [op |-> "", metric |-> "", raised |-> "", rows |-> 0, same |-> TRUE]

NoInitArgs ==
    [problems |-> ListArg(<<>>), models |-> ListArg(<<>>),
     problem_to_models |-> NoRestriction, metrics |-> <<>>,
     use_precomputed |-> FALSE, timesteps |-> 0, bad |-> {}]

(***************************************************************************)
(* The LDS problem (ctsb.problem("LDS-v0")), as test_lds uses it.  Its     *)
(* class is not part of the sources at hand; it is modelled from the       *)
(* problem interface: initialize, step(action) -> observation, hidden().   *)
(***************************************************************************)

\* The values a coordinate of the hidden state takes (the state is kept as
\* one abstract value; the noise makes the next one a free choice).
StateValues == {0, 1, 2}

\* ctsb.problem("LDS-v0"): an instance on which initialize has not run.
NewProblem == [initialized |-> FALSE, T |-> 0, n |-> 0, m |-> 0, d |-> 0, x |-> 0]

\* problem.initialize(n, m, d): the step counter starts at 0.
lds_initialize(p, n, m, d, x0) ==
    [initialized |-> TRUE, T |-> 0, n |-> n, m |-> m, d |-> d, x |-> x0]

\* (variant: step leaves the counter alone)
lds_step_uncounted(p, u, x1) == [p EXCEPT !.x = x1]

\* problem.step(u): the state moves on and the step counter advances by one.
lds_step(p, u, x1) == [p EXCEPT !.x = x1, !.T = p.T + 1]

\* problem.hidden(): the hidden state, read only.
lds_hidden(p) == [problem |-> p, info |-> p.x]

NoTrace == [op |-> "new", steps |-> 0, hiddens |-> 0, Tbefore |-> 0]

(***************************************************************************)
(* The calls on an Experiment.                                             *)
(***************************************************************************)

Init ==
    /\ exp = Constructed
    /\ before = Constructed
    /\ last = NoCall
    /\ initArgs = NoInitArgs
    /\ nAdds = 0
    /\ problem = NewProblem
    /\ trace = NoTrace
    /\ read = NoRead

\* exp.initialize(...) with arguments among calls.
InitializeCall(calls) ==
    \E c \in calls :
        LET r == initialize(exp, c.problems, c.models, c.problem_to_models,
                            c.metrics, c.use_precomputed, c.timesteps, c.bad)
        IN /\ exp' = r.exp
           /\ before' = Constructed
           /\ last' = [NoCall EXCEPT !.op = "initialize", !.out = r.out,
                                     !.bad = c.bad, !.replaced = Summary(exp)]
           /\ initArgs' = c
           /\ nAdds' = 0
           /\ read' = NoRead
           /\ UNCHANGED <<problem, trace>>

\* exp.add_model(...) with arguments among calls.
AddModelCall(calls) ==
    /\ nAdds < MaxAdds
    /\ \E c \in calls, bad \in BadChoices(KeySeq(exp.problems)) :
         LET r == add_model(exp, c.model_id, c.model_params, c.name, bad)
         IN /\ exp' = r.exp
            /\ before' = exp
            /\ last' = [op |-> "add_model", raised |-> r.raised, out |-> {},
                        new_id |-> r.new_id, trials |-> r.trials,
                        model_id |-> c.model_id, model_params |-> c.model_params,
                        name |-> c.name, bad |-> bad,
                        replaced |-> Summary(Constructed)]
    /\ nAdds' = nAdds + 1
    /\ read' = NoRead
    /\ UNCHANGED <<initArgs, problem, trace>>

(***************************************************************************)
(* Spec: initialize with its default options, many add_model calls         *)
(***************************************************************************)
Initialize ==
    InitializeCall(InitCalls({ListArg(<<"ARMA-v0", "SP500-v0">>)},
                             {ListArg(<<"RNN">>)}, FALSE, {<<"mse">>},
                             {TRUE}, {100}))

AddModel ==
    AddModelCall(AddCalls({"RNN", "LSTM"},
                          {NoneParams, ModelParams("", 1), ModelParams("OGD", 2)},
                          {NoName, "1"}))

Next == Initialize \/ AddModel

Spec == Init /\ [][Next]_vars

(***************************************************************************)
(* SpecInit: many initialize calls, few add_model calls                    *)
(***************************************************************************)
InitializeAny ==
    InitializeCall(InitCalls(
        {ListArg(<<"ARMA-v0">>),
         DictArg(<<"ARMA-v0", "SP500-v0">>, <<UserProblemParams, NoneProblemParams>>)},
        {ListArg(<<"RNN">>), DictArg(<<"RNN", "LSTM">>, <<ModelParams("", 1), NoneParams>>)},
        TRUE, {<<"mse", "mae">>}, BOOLEAN, {100, get_timesteps}))

AddModelFew ==
    AddModelCall(AddCalls({NoneId, "RNN"}, {ModelParams("", 1)}, {NoName}))

NextInit == InitializeAny \/ AddModelFew

SpecInit == Init /\ [][NextInit]_vars

(***************************************************************************)
(* SpecRead: initialize and add_model calls, each followed by any number   *)
(* of scoreboard calls                                                     *)
(***************************************************************************)

\* The metrics a scoreboard is asked for: the configured ones, 'time' and
\* 'memory'.
ScoreboardMetrics(e) ==
    {e.metrics[i] : i \in 1..Len(e.metrics)} \cup {"time", "memory"}

Scoreboard ==
    /\ \E metric \in ScoreboardMetrics(exp) :
         LET r == scoreboard(exp, metric)
         IN /\ exp' = r.exp
            /\ read' = [op |-> "scoreboard", metric |-> metric,
                        raised |-> r.raised, rows |-> r.rows,
                        same |-> r.exp = exp]
    /\ UNCHANGED <<before, last, initArgs, nAdds, problem, trace>>

NextRead == InitializeAny \/ AddModelFew \/ Scoreboard

SpecRead == Init /\ [][NextRead]_vars

(***************************************************************************)
(* test_lds: the calls the test makes on the LDS problem.                  *)
(***************************************************************************)

\* test_lds, line 14: problem.initialize(n, m, d).
TestInitialize ==
    /\ \E n \in {1, 5}, x0 \in StateValues :
         problem' = lds_initialize(problem, n, 3, 10, x0)
    /\ trace' = [op |-> "initialize", steps |-> 0, hiddens |-> 0,
                 Tbefore |-> problem.T]
    /\ UNCHANGED expVars

\* test_lds, lines 18-20: one iteration of the loop, problem.step(u).
TestStep ==
    /\ problem.initialized
    /\ trace.steps < MaxSteps
    /\ \E u \in {0, 1}, x1 \in StateValues :
         problem' = lds_step(problem, u, x1)
    /\ trace' = [trace EXCEPT !.op = "step", !.steps = trace.steps + 1,
                              !.Tbefore = problem.T]
    /\ UNCHANGED expVars

\* test_lds, line 22: info = problem.hidden().
TestHidden ==
    /\ problem.initialized
    /\ problem' = lds_hidden(problem).problem
    /\ trace' = [trace EXCEPT !.op = "hidden", !.hiddens = 1,
                              !.Tbefore = problem.T]
    /\ UNCHANGED expVars

NextLDS == TestInitialize \/ TestStep \/ TestHidden

SpecLDS == Init /\ [][NextLDS]_vars

(***************************************************************************)
(* Properties                                                              *)
(***************************************************************************)

\* The last call was add_model and it got as far as deriving a key.
Derived == last.op = "add_model" /\ last.new_id # ""

\* The entries of the results table that the last call wrote or changed.
Written ==
    {k \in DOMAIN exp.prob_model_to_result :
        \/ k \notin DOMAIN before.prob_model_to_result
        \/ exp.prob_model_to_result[k] # before.prob_model_to_result[k]}

\* The triples scoreboard and graph look up.
ReaderKeys(e) ==
    {<<m, p, k>> : m \in {e.metrics[i] : i \in 1..Len(e.metrics)} \cup {"time", "memory"},
                   p \in Keys(e.problems), k \in Keys(e.models)}

\* C1: when a trial of add_model raises, the exception does not leave
\* add_model, the table holds loss 0, time -1, memory -1 under the derived
\* key for that problem, and every problem has been processed.
C1_TrialFailureContained ==
    (Derived /\ last.bad # {}) =>
        /\ last.raised = ""
        /\ \A p \in last.bad :
             /\ \A i \in 1..Len(exp.metrics) :
                  /\ <<exp.metrics[i], p, last.new_id>> \in DOMAIN exp.prob_model_to_result
                  /\ exp.prob_model_to_result[<<exp.metrics[i], p, last.new_id>>] = Scalar(0)
             /\ <<"time", p, last.new_id>> \in DOMAIN exp.prob_model_to_result
             /\ exp.prob_model_to_result[<<"time", p, last.new_id>>] = Scalar(-1)
             /\ exp.prob_model_to_result[<<"memory", p, last.new_id>>] = Scalar(-1)
        /\ \A p \in Keys(exp.problems) :
             <<"time", p, last.new_id>> \in DOMAIN exp.prob_model_to_result

\* C2: an add_model call never rebinds the hyperparameters of a model key
\* that existed before it, nor overwrites that key's result entries.
C2_KeysNeverRebound ==
    Derived =>
        /\ \A k \in Keys(before.models) :
             Has(exp.models, k) /\ Get(exp.models, k) = Get(before.models, k)
        /\ \A k \in DOMAIN before.prob_model_to_result :
             /\ k \in DOMAIN exp.prob_model_to_result
             /\ k[3] \in Keys(before.models) =>
                  exp.prob_model_to_result[k] = before.prob_model_to_result[k]

CountOf(n_models, model_id) ==
    IF model_id \in DOMAIN n_models THEN n_models[model_id] ELSE 0

\* The call gave no name and its hyperparameters name no optimizer.
Anonymous(call) ==
    /\ call.op = "add_model"
    /\ call.name = NoName
    /\ ~HasOptimizer(call.model_params)

RuleName(call) ==
    IF call.name # NoName THEN call.name
    ELSE IF call.model_params.optimizer # "" THEN call.model_params.optimizer
    ELSE NoName

C5_AddModelUsesConfiguredTimesteps ==
    Derived =>
        /\ \A t \in last.trials : t.timesteps = exp.timesteps
        /\ \A k \in Written :
             exp.prob_model_to_result[k].tag = "series" =>
                exp.prob_model_to_result[k].v = exp.timesteps

\* C6: once initialize or add_model has returned, every triple a reader
\* looks up is in the results table.
C6_ReadersFindEveryKey ==
    (last.op \in {"initialize", "add_model"} /\ last.raised = "" /\ exp.attrs) =>
        ReaderKeys(exp) \subseteq DOMAIN exp.prob_model_to_result

\* C7: initialize with use_precomputed and a timestep count other than the
\* frozen one warns and sets the experiment's timestep count to the frozen
\* one.
C7_TimestepsForced ==
    (/\ last.op = "initialize" /\ initArgs.use_precomputed
     /\ initArgs.timesteps # get_timesteps) =>
        /\ last.raised = ""
        /\ WarnTimesteps \in last.out
        /\ exp.timesteps = get_timesteps

AllDefault(d, none) == \A k \in Keys(d) : Get(d, k) = none

\* C8: initialize with use_precomputed and problems or models given as a
\* mapping warns and leaves default hyperparameters for every problem and
\* model; a later add_model runs its trials with default problem
\* hyperparameters.
C8_HyperparametersDiscarded ==
    /\ (/\ last.op = "initialize" /\ initArgs.use_precomputed
        /\ (initArgs.problems.form = "dict" \/ initArgs.models.form = "dict")) =>
          /\ initArgs.problems.form = "dict" => WarnProblemParams \in last.out
          /\ initArgs.models.form = "dict" => WarnModelParams \in last.out
          /\ AllDefault(exp.problems, NoneProblemParams)
          /\ AllDefault(exp.models, NoneParams)
    /\ (Derived /\ exp.use_precomputed) =>
          \A t \in last.trials : t.problem_params = NoneProblemParams

C10_InitializeReplacesState ==
    last.op = "initialize" =>
        /\ exp = initialize(Constructed, initArgs.problems, initArgs.models,
                            initArgs.problem_to_models, initArgs.metrics,
                            initArgs.use_precomputed, initArgs.timesteps,
                            initArgs.bad).exp
        /\ exp.n_models = EmptyMap
        /\ KeySeq(exp.models) = initArgs.models.ids
        /\ KeySeq(exp.problems) = initArgs.problems.ids
        /\ exp.metrics = initArgs.metrics
        /\ \A k \in DOMAIN exp.prob_model_to_result :
             k[3] \in Keys(exp.models) /\ k[2] \in Keys(exp.problems)

C10_Witness ==
    /\ last.op = "initialize"
    /\ last.replaced.attrs
    /\ last.replaced.ncounted > 0
    /\ last.replaced.nmodels > Len(exp.models)
    /\ exp.n_models = EmptyMap

C12_ScoreboardCompletes ==
    (read.op = "scoreboard" /\ ~AttrMissing(exp)) =>
        /\ read.raised = ""
        /\ read.same

\* The part of C12 about the unset attribute alone: scoreboard never ends in
\* an AttributeError on an initialized experiment.
C12_NoUnsetRead ==
    (read.op = "scoreboard" /\ ~AttrMissing(exp)) => read.raised # "AttributeError"

\* The part of C12 that the code keeps: scoreboard changes nothing.
C12_ReadOnly ==
    read.op = "scoreboard" => read.same

====
